---- MODULE Spec2Model ----
(***************************************************************************)
(* Model of the ingress log middleware (package httpmiddleware).           *)
(*                                                                         *)
(* One interceptor is built by NewIngressLogMiddleware and serves one      *)
(* request through Enforce or EnforceWithParams.  The wrapped handler is   *)
(* any sequence of reads, header updates, writes and sleeps that ends by   *)
(* returning or panicking; the deferred function of the wrapper then       *)
(* recovers, writes the fallback response and calls IngressLog.log.        *)
(*                                                                         *)
(* Strings that the code only copies are sequences of tokens, so a body    *)
(* is a sequence of bytes and "contains panic" is a membership test.       *)
(***************************************************************************)
EXTENDS Integers, Sequences, FiniteSets, TLC

VARIABLES
    pc,               \* position of the wrapper: new, ready, handler, returned, panicking, done
    argKind,          \* optionalConfig as passed: "none", "nil" or "config"
    argExcludeNil,    \* the passed Config had ExcludeOpt == nil
    config,           \* the caller's *Config before construction, IngressLog.config after
    variant,          \* "Enforce" or "EnforceWithParams"
    req,              \* the incoming *http.Request: Method, URL, ctx (upstream context
                      \* identifier, "" if none), Body (the body as it arrives)
    reqHeader,        \* the request's Header map (shared by r, newRequest and LogRequest)
    reqBody,          \* request.Body: Nil or a stream
    ctxId,            \* context identifier carried by newRequest.Context()
    minted,           \* uuid.New() was called for this request
    logReq,           \* *LogRequest built by buildLogRequest
    recorder,         \* *log.LoggingResponseWriter: Status, Body
    client,           \* the real http.ResponseWriter: what the client receives
    rspHeader,        \* the response Header map (rw.Header())
    startTime,        \* local startTime of the wrapper
    elapsedTimeInMS,  \* local elapsedTimeInMS of the wrapper
    now,              \* the clock, in ticks
    panicVal,         \* value the handler panicked with ("" while it has not)
    handlerRead,      \* the handler has read request.Body
    handlerBody,      \* what the handler read from request.Body
    handlerWrote,     \* the handler called WriteHeader or Write
    handlerStatus,    \* first status the handler passed to WriteHeader (0: none)
    retTime,          \* clock value when the handler returned or panicked
    steps,            \* operations the handler has performed
    logs,             \* calls of logger.InfoMap: <<[ctx, data]>>
    headerOwner,      \* newRequest.Header: "shared" with r.Header, a "copy", or "undecided"
    handlerAdded,     \* header names the handler has added to its request
    handlerErr,       \* the error of the handler's read of request.Body
    handlerCalls,     \* calls of the wrapped handler
    direct,           \* the sink as the handler's own writes alone leave it
    directHeader,     \* the response header map as the handler's own calls leave it
    conc              \* calls of the wrapper closures: one record of locals each

vars == <<pc, argKind, argExcludeNil, config, variant, req, reqHeader, reqBody,
          ctxId, minted, logReq, recorder, client, rspHeader, startTime,
          elapsedTimeInMS, now, panicVal, handlerRead, handlerBody, handlerWrote,
          handlerStatus, retTime, steps, logs, headerOwner, handlerAdded,
          handlerErr, handlerCalls, direct, directHeader, conc>>

(***************************************************************************)
(* Bounds of the model.                                                    *)
(***************************************************************************)
MaxExclusions == 2      \* options set in a passed Config
MaxBodyLen == 2         \* bytes of a request body
MaxHandlerSteps == 3    \* operations of the wrapped handler before it ends
MaxConcSteps == 2       \* the same, for each of the requests served concurrently
MaxConcTicks == 2       \* clock ticks while requests are served concurrently
TicksPerMs == 2         \* clock ticks in a millisecond
StartClock == 3         \* clock value when the request arrives

(***************************************************************************)
(* constant.go                                                             *)
(***************************************************************************)
FieldType == "type"
FieldURL == "url_path"
FieldReqHeader == "req_header"
FieldReqBody == "req_body"
FieldResponseHeader == "rsp_header"
FieldStatus == "status"
FieldResponseBody == "rsp_body"
FieldDurationMs == "duration_ms"
FieldReqTimestamp == "req_timestamp"
ExcludeLog == TRUE
IncludeLog == FALSE
headerNameRequestID == "x-request-id"
wipedMessage == <<"-">>
valueLogTypeIngress == "ingress_http"
StatusOK == 200
StatusInternalServerError == 500

\* a nil pointer or nil interface value
Nil == [isNil |-> TRUE]
\* the string "null"
NullBody == <<"n", "u", "l", "l">>

(***************************************************************************)
(* Config and its Policy functions.                                        *)
(***************************************************************************)
ExcludeFlags == {"RequestHeader", "RequestBody", "ResponseHeader",
                 "ResponseBody", "SuccessResponseBody", "SuccessRequest"}

\* &ExcludeOption{}: every flag unset, no header keys
EmptyExcludeOption ==
    [RequestHeader |-> FALSE, RequestBody |-> FALSE, ResponseHeader |-> FALSE,
     ResponseBody |-> FALSE, SuccessResponseBody |-> FALSE,
     SuccessRequest |-> FALSE, RequestHeaderKeys |-> <<>>]

defaultConfig == [ExcludeOpt |-> EmptyExcludeOption, DisableIngressLog |-> FALSE]

\* variant: a nil ExcludeOpt is kept
NewConfigKeepNil(c) == c

NewConfig(c) ==
    IF c.ExcludeOpt = Nil THEN [c EXCEPT !.ExcludeOpt = EmptyExcludeOption] ELSE c

LogRequestHeader(c) ==
    IF c.ExcludeOpt = Nil THEN IncludeLog ELSE c.ExcludeOpt.RequestHeader = IncludeLog

LogRequestBody(c) ==
    IF c.ExcludeOpt = Nil THEN IncludeLog ELSE c.ExcludeOpt.RequestBody = IncludeLog

LogResponseHeader(c) ==
    IF c.ExcludeOpt = Nil THEN IncludeLog ELSE c.ExcludeOpt.ResponseHeader = IncludeLog

LogResponseBody(c) ==
    IF c.ExcludeOpt = Nil THEN IncludeLog ELSE c.ExcludeOpt.ResponseBody = IncludeLog

LogSuccessResponseBody(c) ==
    IF c.ExcludeOpt = Nil THEN IncludeLog
    ELSE c.ExcludeOpt.SuccessResponseBody = IncludeLog

LogFailedRequestOnly(c) ==
    IF c.ExcludeOpt = Nil THEN IncludeLog ELSE c.ExcludeOpt.SuccessRequest = ExcludeLog

(***************************************************************************)
(* http.Header: a map from canonical header names to lists of values.      *)
(***************************************************************************)
\* textproto.CanonicalMIMEHeaderKey on the names the model uses
CanonicalMIMEHeaderKey(k) ==
    CASE k = "x-request-id" -> "X-Request-Id"
      [] k = "authorization" -> "Authorization"
      [] k = "x-exclude-key" -> "X-Exclude-Key"
      [] k = "content-type" -> "Content-Type"
      [] OTHER -> k

HeaderGet(h, k) ==
    LET ck == CanonicalMIMEHeaderKey(k)
    IN IF ck \in DOMAIN h /\ Len(h[ck]) > 0 THEN h[ck][1] ELSE ""

HeaderDel(h, k) ==
    [x \in DOMAIN h \ {CanonicalMIMEHeaderKey(k)} |-> h[x]]

HeaderSet(h, k, v) ==
    LET ck == CanonicalMIMEHeaderKey(k)
    IN [x \in DOMAIN h \cup {ck} |-> IF x = ck THEN <<v>> ELSE h[x]]

HeaderAdd(h, k, v) ==
    LET ck == CanonicalMIMEHeaderKey(k)
    IN [x \in DOMAIN h \cup {ck} |->
            IF x = ck THEN (IF ck \in DOMAIN h THEN Append(h[ck], v) ELSE <<v>>)
            ELSE h[x]]

\* Header.Clone: a map of its own with the same entries
HeaderClone(h) == [x \in DOMAIN h |-> h[x]]

\* variant: the configured names are left in the map
DelAllSkipped(h, keys) == h

RECURSIVE DelAll(_, _)
\* for _, headerKey := range keys { header.Del(headerKey) }
DelAll(h, keys) ==
    IF keys = <<>> THEN h ELSE DelAll(HeaderDel(h, Head(keys)), Tail(keys))

(***************************************************************************)
(* Body capture.                                                           *)
(***************************************************************************)
\* a stream yields data[pos+1..] and then EOF, or a read error when err
NewBuffer(bytes) == [data |-> bytes, pos |-> 0, err |-> FALSE]

\* ioutil.ReadAll: the bytes up to EOF or to the first error, and the error
ReadAll(s) ==
    [bytes |-> SubSeq(s.data, s.pos + 1, Len(s.data)), err |-> s.err,
     rest |-> [s EXCEPT !.pos = Len(s.data)]]

\* variant: the consumed stream is left on the request
getBodyBytesNoRestore(body) ==
    LET r == ReadAll(body)
    IN [bytes |-> r.bytes, err |-> r.err, body |-> r.rest]

getBodyBytes(body) ==
    LET r == ReadAll(body)
    IN [bytes |-> r.bytes, err |-> r.err, body |-> NewBuffer(r.bytes)]

\* the captured text and the request's Body afterwards
getRequestBody(body) ==
    IF body = Nil THEN [text |-> NullBody, body |-> body]
    ELSE LET r == getBodyBytes(body)
         IN IF r.err THEN [text |-> NullBody, body |-> r.body]
            ELSE [text |-> r.bytes, body |-> r.body]

\* variant: the body is not captured
buildLogRequestWithoutBody(r, body) ==
    [logReq |-> [URL |-> r.URL, Method |-> r.Method, Body |-> <<>>], body |-> body]

\* Header is the request's own map, not a copy: the model reads reqHeader
buildLogRequest(r, body) ==
    LET b == getRequestBody(body)
    IN [logReq |-> [URL |-> r.URL, Method |-> r.Method, Body |-> b.text],
        body |-> b.body]

(***************************************************************************)
(* Correlation identifier.                                                 *)
(***************************************************************************)
NewUUID == "uuid-1"

\* variant: the x-request-id header is not consulted
appendContextDataAlwaysMinted(r, header) ==
    IF r.ctx # "" THEN [ctxId |-> r.ctx, minted |-> FALSE]
    ELSE [ctxId |-> NewUUID, minted |-> TRUE]

\* variant: the upstream context data is not consulted
appendContextDataIgnoringUpstream(r, header) ==
    LET h == HeaderGet(header, headerNameRequestID)
    IN IF h = "" THEN [ctxId |-> NewUUID, minted |-> TRUE]
       ELSE [ctxId |-> h, minted |-> FALSE]

appendContextDataAndSetValue(r, header) ==
    IF r.ctx # "" THEN [ctxId |-> r.ctx, minted |-> FALSE]
    ELSE LET h == HeaderGet(header, headerNameRequestID)
         IN IF h = "" THEN [ctxId |-> NewUUID, minted |-> TRUE]
            ELSE [ctxId |-> h, minted |-> FALSE]

(***************************************************************************)
(* Response Recorder (log.LoggingResponseWriter) over the real sink.       *)
(***************************************************************************)
\* the real http.ResponseWriter: the first status is committed, later ones
\* are dropped; a Write commits 200 when nothing was committed
SinkWriteHeader(c, code) ==
    IF c.wroteHeader THEN c ELSE [c EXCEPT !.wroteHeader = TRUE, !.status = code]

SinkWrite(c, bytes) ==
    LET c1 == SinkWriteHeader(c, StatusOK) IN [c1 EXCEPT !.body = @ \o bytes]

CreateResponseWrapper == [Status |-> StatusOK, Body |-> <<>>, statusSet |-> FALSE]

\* the recorder and the sink after writer.WriteHeader(code)
WriteHeader(w, code) ==
    [rec |-> IF w.rec.statusSet THEN w.rec
             ELSE [w.rec EXCEPT !.Status = code, !.statusSet = TRUE],
     sink |-> SinkWriteHeader(w.sink, code)]

\* the recorder and the sink after writer.Write(bytes)
Write(w, bytes) ==
    [rec |-> [w.rec EXCEPT !.Body = @ \o bytes],
     sink |-> SinkWrite(w.sink, bytes)]

(***************************************************************************)
(* IngressLog.log                                                          *)
(***************************************************************************)
\* time.Time.Unix: whole seconds
Unix(t) == t \div (TicksPerMs * 1000)

\* variant: whole seconds
MillisecondsAsSeconds(d) == d \div (TicksPerMs * 1000)

\* time.Duration.Milliseconds: whole milliseconds
Milliseconds(d) == d \div TicksPerMs

\* variant: the request's own map is redacted, not a copy
LoggedRequestHeaderNoClone(c, live) ==
    LET h1 == HeaderDel(live, "Authorization")
        excludeRequestHeaderKeys == c.ExcludeOpt.RequestHeaderKeys
        h2 == IF Len(excludeRequestHeaderKeys) > 0
              THEN DelAll(h1, excludeRequestHeaderKeys) ELSE h1
    IN [logged |-> h2, live |-> h2]

\* the header put in the record, and the request's own map afterwards
LoggedRequestHeader(c, live) ==
    LET header == HeaderClone(live)
        h1 == HeaderDel(header, "Authorization")
        excludeRequestHeaderKeys == c.ExcludeOpt.RequestHeaderKeys
        h2 == IF Len(excludeRequestHeaderKeys) > 0
              THEN DelAll(h1, excludeRequestHeaderKeys) ELSE h1
    IN [logged |-> h2, live |-> live]

\* the header put in the record, and the response's own map afterwards
LoggedResponseHeader(live) ==
    LET header == HeaderClone(live)
    IN [logged |-> HeaderDel(header, "Authorization"), live |-> live]

\* variant: the status test is inverted
LoggedResponseBodyInverted(c, rw) ==
    IF LogSuccessResponseBody(c) THEN rw.Body
    ELSE IF rw.Status = StatusOK THEN rw.Body ELSE wipedMessage

LoggedResponseBody(c, rw) ==
    IF LogSuccessResponseBody(c) THEN rw.Body
    ELSE IF rw.Status # StatusOK THEN rw.Body ELSE wipedMessage

\* variant: the status is not consulted
SkipLogAnyStatus(c, rw) ==
    c.DisableIngressLog \/ LogFailedRequestOnly(c)

SkipLog(c, rw) ==
    c.DisableIngressLog \/ (LogFailedRequestOnly(c) /\ rw.Status = StatusOK)

\* variant: req_body is put in the record whatever LogRequestBody() says
LogWithEveryRequestBody(c, ctx, request, liveReqHeader, timeTaken, requestTimestamp, rw, liveRspHeader) ==
    IF SkipLog(c, rw)
    THEN [emit |-> FALSE, ctx |-> ctx, data |-> <<>>,
          reqHeader |-> liveReqHeader, rspHeader |-> liveRspHeader]
    ELSE
      LET base == (FieldType :> valueLogTypeIngress)
                  @@ (FieldURL :> <<request.Method, " ", request.URL>>)
                  @@ (FieldReqTimestamp :> Unix(requestTimestamp))
                  @@ (FieldStatus :> rw.Status)
                  @@ (FieldDurationMs :> timeTaken)
          rqh == LoggedRequestHeader(c, liveReqHeader)
          rsh == LoggedResponseHeader(liveRspHeader)
          f1 == IF LogRequestHeader(c) THEN (FieldReqHeader :> rqh.logged) ELSE <<>>
          f2 == (FieldReqBody :> request.Body)
          f3 == IF LogResponseHeader(c) THEN (FieldResponseHeader :> rsh.logged) ELSE <<>>
          f4 == IF LogResponseBody(c)
                THEN (FieldResponseBody :> LoggedResponseBody(c, rw)) ELSE <<>>
      IN [emit |-> TRUE, ctx |-> ctx,
          data |-> base @@ f1 @@ f2 @@ f3 @@ f4,
          reqHeader |-> IF LogRequestHeader(c) THEN rqh.live ELSE liveReqHeader,
          rspHeader |-> IF LogResponseHeader(c) THEN rsh.live ELSE liveRspHeader]

\* emit: InfoMap is called; data: the dataMap; reqHeader, rspHeader: the
\* live header maps when log returns
Log(c, ctx, request, liveReqHeader, timeTaken, requestTimestamp, rw, liveRspHeader) ==
    IF SkipLog(c, rw)
    THEN [emit |-> FALSE, ctx |-> ctx, data |-> <<>>,
          reqHeader |-> liveReqHeader, rspHeader |-> liveRspHeader]
    ELSE
      LET base == (FieldType :> valueLogTypeIngress)
                  @@ (FieldURL :> <<request.Method, " ", request.URL>>)
                  @@ (FieldReqTimestamp :> Unix(requestTimestamp))
                  @@ (FieldStatus :> rw.Status)
                  @@ (FieldDurationMs :> timeTaken)
          rqh == LoggedRequestHeader(c, liveReqHeader)
          rsh == LoggedResponseHeader(liveRspHeader)
          f1 == IF LogRequestHeader(c) THEN (FieldReqHeader :> rqh.logged) ELSE <<>>
          f2 == IF LogRequestBody(c) THEN (FieldReqBody :> request.Body) ELSE <<>>
          f3 == IF LogResponseHeader(c) THEN (FieldResponseHeader :> rsh.logged) ELSE <<>>
          f4 == IF LogResponseBody(c)
                THEN (FieldResponseBody :> LoggedResponseBody(c, rw)) ELSE <<>>
      IN [emit |-> TRUE, ctx |-> ctx,
          data |-> base @@ f1 @@ f2 @@ f3 @@ f4,
          reqHeader |-> IF LogRequestHeader(c) THEN rqh.live ELSE liveReqHeader,
          rspHeader |-> IF LogResponseHeader(c) THEN rsh.live ELSE liveRspHeader]

(***************************************************************************)
(* Inputs.                                                                 *)
(***************************************************************************)
BodyAlphabet == <<"a", "b", "c", "d">>
NilPanic == "<nil>"
PanicValues == {"boom", NilPanic}
HandlerStatuses == {StatusOK, StatusInternalServerError}
HandlerChunks == {<<"x">>}
ResponseHeaderNames == {"Content-Type", "Authorization"}
HandlerRequestHeaderNames == {"Add", "X-Exclude-Key"}
HeaderKeyLists == {<<>>, <<"X-Exclude-Key">>}

ExcludeOptions ==
    [RequestHeader : BOOLEAN, RequestBody : BOOLEAN, ResponseHeader : BOOLEAN,
     ResponseBody : BOOLEAN, SuccessResponseBody : BOOLEAN,
     SuccessRequest : BOOLEAN, RequestHeaderKeys : HeaderKeyLists]

\* options a Config sets away from its zero value
OptionsSet(c) ==
    (IF c.DisableIngressLog THEN 1 ELSE 0)
    + (IF c.ExcludeOpt = Nil THEN 0
       ELSE Cardinality({f \in ExcludeFlags : c.ExcludeOpt[f]})
            + (IF c.ExcludeOpt.RequestHeaderKeys # <<>> THEN 1 ELSE 0))

Configs ==
    {c \in [ExcludeOpt : ExcludeOptions \cup {Nil}, DisableIngressLog : BOOLEAN] :
        OptionsSet(c) <= MaxExclusions}

\* request bodies: absent, or a stream of up to MaxBodyLen bytes that ends
\* in EOF or in a read error
Bodies ==
    {Nil} \cup {[data |-> SubSeq(BodyAlphabet, 1, n), pos |-> 0, err |-> e] :
                    n \in 0..MaxBodyLen, e \in BOOLEAN}

FullBody == [data |-> SubSeq(BodyAlphabet, 1, MaxBodyLen), pos |-> 0, err |-> FALSE]

RequestIds == {"rid-1", ""}

RequestHeaders ==
    {[x \in {"X-Country"} \cup S |->
        CASE x = "X-Country" -> <<"ID">>
          [] x = "Authorization" -> <<"Bearer t">>
          [] x = "X-Request-Id" -> <<rid>>
          [] x = "X-Exclude-Key" -> <<"secret">>] :
     S \in SUBSET {"Authorization", "X-Request-Id", "X-Exclude-Key"},
     rid \in RequestIds}

\* Body, Header: the body stream and the header map as they arrive (reqBody
\* and reqHeader are request.Body and request.Header as they are now)
TheRequest ==
    [Method |-> "GET", URL |-> "/hello", ctx |-> "", Body |-> FullBody,
     Header |-> [x \in {"X-Country"} |-> <<"ID">>]]

InitLocals ==
    /\ pc = "new"
    /\ variant = ""
    /\ ctxId = ""
    /\ minted = FALSE
    /\ logReq = Nil
    /\ recorder = Nil
    /\ client = [wroteHeader |-> FALSE, status |-> 0, body |-> <<>>]
    /\ rspHeader = <<>>
    /\ startTime = 0
    /\ elapsedTimeInMS = 0
    /\ now = StartClock
    /\ panicVal = ""
    /\ handlerRead = FALSE
    /\ handlerBody = <<>>
    /\ handlerWrote = FALSE
    /\ handlerStatus = 0
    /\ retTime = 0
    /\ steps = 0
    /\ logs = <<>>
    /\ headerOwner = "undecided"
    /\ handlerAdded = {}
    /\ handlerErr = FALSE
    /\ handlerCalls = 0
    /\ direct = [wroteHeader |-> FALSE, status |-> 0, body |-> <<>>]
    /\ directHeader = <<>>

\* every configuration argument, with a request that differs in its
\* Authorization and X-Exclude-Key headers
InitConfigs ==
    /\ \/ /\ argKind \in {"none", "nil"}
          /\ config = Nil
          /\ argExcludeNil = FALSE
       \/ /\ argKind = "config"
          /\ config \in Configs
          /\ argExcludeNil = (config.ExcludeOpt = Nil)
    /\ reqHeader \in {h \in RequestHeaders : "X-Request-Id" \notin DOMAIN h}
    /\ req = [TheRequest EXCEPT !.Header = reqHeader]
    /\ reqBody = req.Body
    /\ InitLocals

\* every request, with no configuration argument
InitRequests ==
    /\ argKind = "none"
    /\ config = Nil
    /\ argExcludeNil = FALSE
    /\ reqHeader \in {h \in RequestHeaders : "X-Exclude-Key" \notin DOMAIN h}
    /\ req \in {[TheRequest EXCEPT !.ctx = c, !.Body = b, !.Header = reqHeader] :
                    c \in {"", "up-1"}, b \in Bodies}
    /\ reqBody = req.Body
    /\ InitLocals

Init == (InitConfigs \/ InitRequests) /\ conc = <<>>

(***************************************************************************)
(* Construction.                                                           *)
(***************************************************************************)
NewIngressLogMiddleware ==
    /\ pc = "new"
    /\ config' = IF argKind = "none" \/ argKind = "nil"
                 THEN defaultConfig ELSE NewConfig(config)
    /\ pc' = "ready"
    /\ UNCHANGED <<argKind, argExcludeNil, variant, req, reqHeader, reqBody, ctxId,
                   minted, logReq, recorder, client, rspHeader, startTime,
                   elapsedTimeInMS, now, panicVal, handlerRead, handlerBody,
                   handlerWrote, handlerStatus, retTime, steps, logs, headerOwner,
                   handlerAdded, handlerErr, handlerCalls, direct, directHeader, conc>>

(***************************************************************************)
(* The wrapper up to the call of the handler.                              *)
(***************************************************************************)
Begin(v) ==
    /\ pc = "ready"
    /\ LET b == buildLogRequest(req, reqBody)
           a == appendContextDataAndSetValue(req, reqHeader)
       IN /\ logReq' = b.logReq
          /\ reqBody' = b.body
          /\ ctxId' = a.ctxId
          /\ minted' = a.minted
    /\ recorder' = CreateResponseWrapper
    /\ elapsedTimeInMS' = 0
    /\ startTime' = now
    /\ variant' = v
    /\ handlerCalls' = handlerCalls + 1
    /\ pc' = "handler"
    /\ UNCHANGED <<argKind, argExcludeNil, config, req, reqHeader, client,
                   rspHeader, now, panicVal, handlerRead, handlerBody,
                   handlerWrote, handlerStatus, retTime, steps, logs, headerOwner,
                   handlerAdded, handlerErr, direct, directHeader, conc>>

Enforce == Begin("Enforce")

EnforceWithParams == Begin("EnforceWithParams")

(***************************************************************************)
(* The wrapped handler.                                                    *)
(***************************************************************************)
HandlerStep ==
    /\ pc = "handler"
    /\ steps < MaxHandlerSteps
    /\ steps' = steps + 1
    /\ UNCHANGED <<pc, argKind, argExcludeNil, config, variant, req, ctxId, minted,
                   logReq, startTime, elapsedTimeInMS, panicVal, retTime, logs,
                   handlerCalls, conc>>

\* ioutil.ReadAll(request.Body)
HandlerReadBody ==
    /\ HandlerStep
    /\ reqBody # Nil
    /\ ~handlerRead
    /\ handlerRead' = TRUE
    /\ handlerBody' = ReadAll(reqBody).bytes
    /\ handlerErr' = ReadAll(reqBody).err
    /\ reqBody' = ReadAll(reqBody).rest
    /\ UNCHANGED <<reqHeader, recorder, client, rspHeader, now, handlerWrote,
                   handlerStatus, headerOwner, handlerAdded, direct, directHeader>>

\* writer.Header().Set(k, v)
HandlerSetHeader ==
    /\ HandlerStep
    /\ \E k \in ResponseHeaderNames :
          /\ k \notin DOMAIN rspHeader
          /\ rspHeader' = HeaderSet(rspHeader, k, "v")
          /\ directHeader' = HeaderSet(directHeader, k, "v")
    /\ UNCHANGED <<reqHeader, reqBody, recorder, client, now, handlerRead,
                   handlerBody, handlerWrote, handlerStatus, headerOwner,
                   handlerAdded, handlerErr, direct>>

\* writer.WriteHeader(code)
HandlerWriteHeader ==
    /\ HandlerStep
    /\ \E code \in HandlerStatuses :
          LET w == WriteHeader([rec |-> recorder, sink |-> client], code)
          IN /\ recorder' = w.rec
             /\ client' = w.sink
             /\ handlerStatus' = IF handlerStatus = 0 THEN code ELSE handlerStatus
             /\ direct' = SinkWriteHeader(direct, code)
    /\ handlerWrote' = TRUE
    /\ UNCHANGED <<reqHeader, reqBody, rspHeader, now, handlerRead, handlerBody,
                   headerOwner, handlerAdded, handlerErr, directHeader>>

\* writer.Write(bytes): a fixed chunk, or the body the handler has read
HandlerWrite ==
    /\ HandlerStep
    /\ \E bytes \in HandlerChunks \cup (IF handlerRead THEN {handlerBody} ELSE {}) :
          LET w == Write([rec |-> recorder, sink |-> client], bytes)
          IN /\ recorder' = w.rec
             /\ client' = w.sink
             /\ direct' = SinkWrite(direct, bytes)
    /\ handlerWrote' = TRUE
    /\ UNCHANGED <<reqHeader, reqBody, rspHeader, now, handlerRead, handlerBody,
                   handlerStatus, headerOwner, handlerAdded, handlerErr,
                   directHeader>>

\* time.Sleep of one tick
HandlerSleep ==
    /\ HandlerStep
    /\ now' = now + 1
    /\ UNCHANGED <<reqHeader, reqBody, recorder, client, rspHeader, handlerRead,
                   handlerBody, handlerWrote, handlerStatus, headerOwner,
                   handlerAdded, handlerErr, direct, directHeader>>

\* request.Header.Add(k, "new-value") on the request the handler was given.
\* That request is r itself when the context data came from upstream
\* (line 224); otherwise it is the request SetContextDataAndSetValue
\* returned, whose Header is r's map or a copy of it: which of the two is
\* fixed when the handler first changes the map.
HandlerAddHeader ==
    /\ HandlerStep
    /\ \E k \in HandlerRequestHeaderNames \ handlerAdded :
          /\ handlerAdded' = handlerAdded \cup {k}
          /\ \E o \in (IF req.ctx # "" THEN {"shared"}
                       ELSE IF headerOwner = "undecided" THEN {"shared", "copy"}
                       ELSE {headerOwner}) :
                /\ headerOwner' = o
                /\ reqHeader' = IF o = "shared"
                                THEN HeaderAdd(reqHeader, k, "new-value")
                                ELSE reqHeader
    /\ UNCHANGED <<reqBody, recorder, client, rspHeader, now, handlerRead,
                   handlerBody, handlerWrote, handlerStatus, handlerErr, direct,
                   directHeader>>

\* the handler panics: line 98 (133) is not reached
HandlerPanic ==
    /\ pc = "handler"
    /\ \E v \in PanicValues : panicVal' = v
    /\ retTime' = now
    /\ pc' = "panicking"
    /\ UNCHANGED <<argKind, argExcludeNil, config, variant, req, reqHeader, reqBody,
                   ctxId, minted, logReq, recorder, client, rspHeader, startTime,
                   elapsedTimeInMS, now, handlerRead, handlerBody, handlerWrote,
                   handlerStatus, steps, logs, headerOwner, handlerAdded,
                   handlerErr, handlerCalls, direct, directHeader, conc>>

\* the handler returns: elapsedTimeInMS = time.Since(startTime).Milliseconds()
HandlerReturn ==
    /\ pc = "handler"
    /\ elapsedTimeInMS' = Milliseconds(now - startTime)
    /\ retTime' = now
    /\ pc' = "returned"
    /\ UNCHANGED <<argKind, argExcludeNil, config, variant, req, reqHeader, reqBody,
                   ctxId, minted, logReq, recorder, client, rspHeader, startTime,
                   now, panicVal, handlerRead, handlerBody, handlerWrote,
                   handlerStatus, steps, logs, headerOwner, handlerAdded,
                   handlerErr, handlerCalls, direct, directHeader, conc>>

(***************************************************************************)
(* The deferred function of the wrapper.                                   *)
(***************************************************************************)
\* variant: recover() is not called by the deferred function itself
RecoverNothing == ""

\* recover(): the panic value; nil when there is no panic or it is panic(nil)
Recover == IF pc = "panicking" /\ panicVal # NilPanic THEN panicVal ELSE ""

\* fmt.Sprintf("panic: %v.", r)
PanicMessage(r) == <<"panic: ", r, ".">>

\* variant: the fallback is written whether or not a panic was recovered
FallbackUnconditional(w, r) ==
    Write(WriteHeader(w, StatusInternalServerError), PanicMessage(r))

\* the writer after the recover branch
Fallback(w, r) ==
    IF r # ""
    THEN Write(WriteHeader(w, StatusInternalServerError), PanicMessage(r))
    ELSE w

\* the values the deferred function hands to log
DeferredTimeTaken == elapsedTimeInMS

DeferredTimestamp == startTime

\* variant: log is called before the recover branch has written the fallback
FinalizerLogFirst ==
    /\ pc \in {"returned", "panicking"}
    /\ LET w == Fallback([rec |-> recorder, sink |-> client], Recover)
           l == Log(config, ctxId, logReq, reqHeader, DeferredTimeTaken,
                    DeferredTimestamp, recorder, rspHeader)
       IN /\ recorder' = w.rec
          /\ client' = w.sink
          /\ logs' = IF l.emit THEN Append(logs, [ctx |-> l.ctx, data |-> l.data])
                     ELSE logs
          /\ reqHeader' = l.reqHeader
          /\ rspHeader' = l.rspHeader
    /\ pc' = "done"
    /\ UNCHANGED <<argKind, argExcludeNil, config, variant, req, reqBody, ctxId,
                   minted, logReq, startTime, elapsedTimeInMS, now, panicVal,
                   handlerRead, handlerBody, handlerWrote, handlerStatus, retTime,
                   steps, headerOwner, handlerAdded, handlerErr, handlerCalls,
                   direct, directHeader, conc>>

Finalizer ==
    /\ pc \in {"returned", "panicking"}
    /\ LET w == Fallback([rec |-> recorder, sink |-> client], Recover)
           l == Log(config, ctxId, logReq, reqHeader, DeferredTimeTaken,
                    DeferredTimestamp, w.rec, rspHeader)
       IN /\ recorder' = w.rec
          /\ client' = w.sink
          /\ logs' = IF l.emit THEN Append(logs, [ctx |-> l.ctx, data |-> l.data])
                     ELSE logs
          /\ reqHeader' = l.reqHeader
          /\ rspHeader' = l.rspHeader
    /\ pc' = "done"
    /\ UNCHANGED <<argKind, argExcludeNil, config, variant, req, reqBody, ctxId,
                   minted, logReq, startTime, elapsedTimeInMS, now, panicVal,
                   handlerRead, handlerBody, handlerWrote, handlerStatus, retTime,
                   steps, headerOwner, handlerAdded, handlerErr, handlerCalls,
                   direct, directHeader, conc>>

Next ==
    \/ NewIngressLogMiddleware
    \/ Enforce
    \/ EnforceWithParams
    \/ HandlerReadBody
    \/ HandlerSetHeader
    \/ HandlerWriteHeader
    \/ HandlerWrite
    \/ HandlerSleep
    \/ HandlerAddHeader
    \/ HandlerPanic
    \/ HandlerReturn
    \/ Finalizer

Spec == Init /\ [][Next]_vars

(***************************************************************************)
(* Several requests served concurrently by one interceptor.  The host runs *)
(* the closure Enforce returned once per request, each call on a task of   *)
(* its own: the locals of a call (r, newRequest, newWriter, startTime,     *)
(* elapsedTimeInMS, request) are one record of conc; the interceptor's     *)
(* config and the clock are the only things the calls have in common.      *)
(***************************************************************************)
ConcRequests ==
    <<[Method |-> "GET", URL |-> "/a", ctx |-> "", Body |-> NewBuffer(<<"a">>),
       Header |-> [x \in {"X-Country", "X-Request-Id"} |->
                     IF x = "X-Country" THEN <<"ID">> ELSE <<"rid-a">>]],
      [Method |-> "POST", URL |-> "/b", ctx |-> "", Body |-> NewBuffer(<<"b", "c">>),
       Header |-> [x \in {"X-Country", "Authorization"} |->
                     IF x = "X-Country" THEN <<"SG">> ELSE <<"Bearer u">>]]>>

Slots == DOMAIN ConcRequests

ConcConfigs ==
    {[ExcludeOpt |-> Nil, DisableIngressLog |-> FALSE],
     [ExcludeOpt |-> [EmptyExcludeOption EXCEPT !.SuccessResponseBody = ExcludeLog],
      DisableIngressLog |-> FALSE],
     [ExcludeOpt |-> [EmptyExcludeOption EXCEPT !.SuccessRequest = ExcludeLog],
      DisableIngressLog |-> FALSE]}

\* the locals of a call that has not started
ConcLocals(i) ==
    [pc |-> "idle", reqHeader |-> ConcRequests[i].Header,
     reqBody |-> ConcRequests[i].Body, ctxId |-> "", logReq |-> Nil,
     recorder |-> Nil, client |-> [wroteHeader |-> FALSE, status |-> 0, body |-> <<>>],
     rspHeader |-> <<>>, startTime |-> 0, elapsedTimeInMS |-> 0, panicVal |-> "",
     steps |-> 0, logs |-> <<>>]

InitConc ==
    /\ \/ /\ argKind = "none"
          /\ config = Nil
          /\ argExcludeNil = FALSE
       \/ /\ argKind = "config"
          /\ config \in ConcConfigs
          /\ argExcludeNil = (config.ExcludeOpt = Nil)
    /\ req = TheRequest
    /\ reqHeader = req.Header
    /\ reqBody = req.Body
    /\ InitLocals
    /\ conc = [i \in Slots |-> ConcLocals(i)]

\* what a step of one call leaves alone
ConcFrame ==
    UNCHANGED <<pc, argKind, argExcludeNil, config, variant, req, reqHeader, reqBody,
                ctxId, minted, logReq, recorder, client, rspHeader, startTime,
                elapsedTimeInMS, panicVal, handlerRead, handlerBody, handlerWrote,
                handlerStatus, retTime, steps, logs, headerOwner, handlerAdded,
                handlerErr, handlerCalls, direct, directHeader>>

\* variant: the capture is a field of the interceptor, so a call that starts
\* replaces the capture of the calls in flight
ConcEnforceSharedCapture(i) ==
    /\ pc = "ready"
    /\ conc[i].pc = "idle"
    /\ LET s == conc[i]
           b == buildLogRequest(ConcRequests[i], s.reqBody)
           a == appendContextDataAndSetValue(ConcRequests[i], s.reqHeader)
       IN conc' = [j \in Slots |->
                     IF j = i
                     THEN [s EXCEPT !.logReq = b.logReq, !.reqBody = b.body,
                                    !.ctxId = a.ctxId,
                                    !.recorder = CreateResponseWrapper,
                                    !.elapsedTimeInMS = 0, !.startTime = now,
                                    !.pc = "handler"]
                     ELSE IF conc[j].pc \in {"handler", "returned", "panicking"}
                     THEN [conc[j] EXCEPT !.logReq = b.logReq]
                     ELSE conc[j]]
    /\ UNCHANGED now
    /\ ConcFrame

\* lines 70-96 of one call
ConcEnforce(i) ==
    /\ pc = "ready"
    /\ conc[i].pc = "idle"
    /\ LET s == conc[i]
           b == buildLogRequest(ConcRequests[i], s.reqBody)
           a == appendContextDataAndSetValue(ConcRequests[i], s.reqHeader)
       IN conc' = [conc EXCEPT ![i] =
                     [s EXCEPT !.logReq = b.logReq, !.reqBody = b.body,
                               !.ctxId = a.ctxId,
                               !.recorder = CreateResponseWrapper,
                               !.elapsedTimeInMS = 0, !.startTime = now,
                               !.pc = "handler"]]
    /\ UNCHANGED now
    /\ ConcFrame

\* the handler of call i: writer.WriteHeader(code)
ConcHandlerWriteHeader(i) ==
    /\ conc[i].pc = "handler"
    /\ conc[i].steps < MaxConcSteps
    /\ \E code \in HandlerStatuses :
          LET s == conc[i]
              w == WriteHeader([rec |-> s.recorder, sink |-> s.client], code)
          IN conc' = [conc EXCEPT ![i] =
                        [s EXCEPT !.recorder = w.rec, !.client = w.sink,
                                  !.steps = @ + 1]]
    /\ UNCHANGED now
    /\ ConcFrame

\* the handler of call i: writer.Write of the URL it was asked for
ConcHandlerWrite(i) ==
    /\ conc[i].pc = "handler"
    /\ conc[i].steps < MaxConcSteps
    /\ LET s == conc[i]
           w == Write([rec |-> s.recorder, sink |-> s.client], <<ConcRequests[i].URL>>)
       IN conc' = [conc EXCEPT ![i] =
                     [s EXCEPT !.recorder = w.rec, !.client = w.sink,
                               !.steps = @ + 1]]
    /\ UNCHANGED now
    /\ ConcFrame

\* a clock tick while some handler runs
ConcTick ==
    /\ \E i \in Slots : conc[i].pc = "handler"
    /\ now < StartClock + MaxConcTicks
    /\ now' = now + 1
    /\ UNCHANGED conc
    /\ ConcFrame

ConcHandlerPanic(i) ==
    /\ conc[i].pc = "handler"
    /\ \E v \in PanicValues :
          conc' = [conc EXCEPT ![i] =
                     [conc[i] EXCEPT !.panicVal = v, !.pc = "panicking"]]
    /\ UNCHANGED now
    /\ ConcFrame

\* line 98 of call i
ConcHandlerReturn(i) ==
    /\ conc[i].pc = "handler"
    /\ LET s == conc[i]
       IN conc' = [conc EXCEPT ![i] =
                     [s EXCEPT !.elapsedTimeInMS = Milliseconds(now - s.startTime),
                               !.pc = "returned"]]
    /\ UNCHANGED now
    /\ ConcFrame

\* lines 81-94 of call i
ConcFinalizer(i) ==
    /\ conc[i].pc \in {"returned", "panicking"}
    /\ LET s == conc[i]
           r == IF s.pc = "panicking" /\ s.panicVal # NilPanic THEN s.panicVal ELSE ""
           w == Fallback([rec |-> s.recorder, sink |-> s.client], r)
           l == Log(config, s.ctxId, s.logReq, s.reqHeader, s.elapsedTimeInMS,
                    s.startTime, w.rec, s.rspHeader)
       IN conc' = [conc EXCEPT ![i] =
                     [s EXCEPT !.recorder = w.rec, !.client = w.sink,
                               !.logs = IF l.emit
                                        THEN Append(@, [ctx |-> l.ctx, data |-> l.data])
                                        ELSE @,
                               !.reqHeader = l.reqHeader,
                               !.rspHeader = l.rspHeader,
                               !.pc = "done"]]
    /\ UNCHANGED now
    /\ ConcFrame

ConcStart == \E i \in Slots : ConcEnforce(i)

ConcWriteHeader == \E i \in Slots : ConcHandlerWriteHeader(i)

ConcWrite == \E i \in Slots : ConcHandlerWrite(i)

ConcPanic == \E i \in Slots : ConcHandlerPanic(i)

ConcReturn == \E i \in Slots : ConcHandlerReturn(i)

ConcEnd == \E i \in Slots : ConcFinalizer(i)

NextConc ==
    \/ NewIngressLogMiddleware
    \/ ConcStart
    \/ ConcWriteHeader
    \/ ConcWrite
    \/ ConcTick
    \/ ConcPanic
    \/ ConcReturn
    \/ ConcEnd

SpecConc == InitConc /\ [][NextConc]_vars

(***************************************************************************)
(* Enforce and EnforceWithParams side by side.  conc holds one call of     *)
(* each closure; both are given the request req and a handler that does    *)
(* the same thing at every step, and the clock is read by both at once.    *)
(* Each closure is written out from its own lines of the source.           *)
(***************************************************************************)
Variants == {"Enforce", "EnforceWithParams"}

\* httprouter.Params of the route
Params == <<"id", "42">>

TwinLocals(r, h, p) ==
    [pc |-> "idle", reqHeader |-> h, reqBody |-> r.Body, ctxId |-> "",
     logReq |-> Nil, recorder |-> Nil,
     client |-> [wroteHeader |-> FALSE, status |-> 0, body |-> <<>>],
     rspHeader |-> <<>>, startTime |-> 0, elapsedTimeInMS |-> 0, panicVal |-> "",
     steps |-> 0, logs |-> <<>>, handlerRead |-> FALSE, handlerBody |-> <<>>,
     ps |-> p, handlerPs |-> <<>>]

InitTwin ==
    /\ \/ /\ argKind = "none"
          /\ config = Nil
          /\ argExcludeNil = FALSE
       \/ /\ argKind = "config"
          /\ config \in ConcConfigs
          /\ argExcludeNil = (config.ExcludeOpt = Nil)
    /\ reqHeader \in {h \in RequestHeaders : "X-Exclude-Key" \notin DOMAIN h}
    /\ req \in {[TheRequest EXCEPT !.ctx = c, !.Body = b, !.Header = reqHeader] :
                    c \in {"", "up-1"}, b \in Bodies}
    /\ reqBody = req.Body
    /\ InitLocals
    /\ conc = [v \in Variants |->
                 TwinLocals(req, reqHeader, IF v = "Enforce" THEN <<>> ELSE Params)]

\* Enforce, lines 70-97: up to the call next.ServeHTTP(newWriter, newRequest)
EnforceEnter(s, r, t) ==
    LET logReqMessage == buildLogRequest(r, s.reqBody)
        newRequest == appendContextDataAndSetValue(r, s.reqHeader)
        newWriter == CreateResponseWrapper
    IN [s EXCEPT !.logReq = logReqMessage.logReq, !.reqBody = logReqMessage.body,
                 !.ctxId = newRequest.ctxId, !.recorder = newWriter,
                 !.elapsedTimeInMS = 0, !.startTime = t, !.pc = "handler"]

\* EnforceWithParams, lines 106-133: up to the call
\* next(newWriter, newRequest, ps)
EnforceWithParamsEnter(s, r, t) ==
    LET logReqMessage == buildLogRequest(r, s.reqBody)
        newRequest == appendContextDataAndSetValue(r, s.reqHeader)
        newWriter == CreateResponseWrapper
    IN [s EXCEPT !.logReq = logReqMessage.logReq, !.reqBody = logReqMessage.body,
                 !.ctxId = newRequest.ctxId, !.recorder = newWriter,
                 !.elapsedTimeInMS = 0, !.startTime = t, !.pc = "handler",
                 !.handlerPs = s.ps]

\* Enforce, line 98
EnforceReturn(s, t) ==
    [s EXCEPT !.elapsedTimeInMS = Milliseconds(t - s.startTime), !.pc = "returned"]

\* EnforceWithParams, line 134
EnforceWithParamsReturn(s, t) ==
    [s EXCEPT !.elapsedTimeInMS = Milliseconds(t - s.startTime), !.pc = "returned"]

\* Enforce, lines 81-94: the deferred function
EnforceDeferred(s, c) ==
    LET r == IF s.pc = "panicking" /\ s.panicVal # NilPanic THEN s.panicVal ELSE ""
        writer == Fallback([rec |-> s.recorder, sink |-> s.client], r)
        l == Log(c, s.ctxId, s.logReq, s.reqHeader, s.elapsedTimeInMS, s.startTime,
                 writer.rec, s.rspHeader)
    IN [s EXCEPT !.recorder = writer.rec, !.client = writer.sink,
                 !.logs = IF l.emit THEN Append(@, [ctx |-> l.ctx, data |-> l.data])
                          ELSE @,
                 !.reqHeader = l.reqHeader, !.rspHeader = l.rspHeader,
                 !.pc = "done"]

\* variant: the deferred function of EnforceWithParams does not recover
EnforceWithParamsDeferredWithoutRecover(s, c) ==
    LET l == Log(c, s.ctxId, s.logReq, s.reqHeader, s.elapsedTimeInMS, s.startTime,
                 s.recorder, s.rspHeader)
    IN [s EXCEPT !.logs = IF l.emit THEN Append(@, [ctx |-> l.ctx, data |-> l.data])
                          ELSE @,
                 !.reqHeader = l.reqHeader, !.rspHeader = l.rspHeader,
                 !.pc = "done"]

\* EnforceWithParams, lines 117-130: the deferred function
EnforceWithParamsDeferred(s, c) ==
    LET r == IF s.pc = "panicking" /\ s.panicVal # NilPanic THEN s.panicVal ELSE ""
        writer == Fallback([rec |-> s.recorder, sink |-> s.client], r)
        l == Log(c, s.ctxId, s.logReq, s.reqHeader, s.elapsedTimeInMS, s.startTime,
                 writer.rec, s.rspHeader)
    IN [s EXCEPT !.recorder = writer.rec, !.client = writer.sink,
                 !.logs = IF l.emit THEN Append(@, [ctx |-> l.ctx, data |-> l.data])
                          ELSE @,
                 !.reqHeader = l.reqHeader, !.rspHeader = l.rspHeader,
                 !.pc = "done"]

\* the handler's operations on the writer and the request it was given
CallWriteHeader(s, code) ==
    LET w == WriteHeader([rec |-> s.recorder, sink |-> s.client], code)
    IN [s EXCEPT !.recorder = w.rec, !.client = w.sink, !.steps = @ + 1]

CallWrite(s, bytes) ==
    LET w == Write([rec |-> s.recorder, sink |-> s.client], bytes)
    IN [s EXCEPT !.recorder = w.rec, !.client = w.sink, !.steps = @ + 1]

CallReadBody(s) ==
    [s EXCEPT !.handlerRead = TRUE, !.handlerBody = ReadAll(s.reqBody).bytes,
              !.reqBody = ReadAll(s.reqBody).rest, !.steps = @ + 1]

CallPanic(s, v) == [s EXCEPT !.panicVal = v, !.pc = "panicking"]

\* every call is at the same place
TwinAt(where) == \A v \in Variants : conc[v].pc \in where

TwinEnter ==
    /\ pc = "ready"
    /\ TwinAt({"idle"})
    /\ conc' = [v \in Variants |->
                  IF v = "Enforce" THEN EnforceEnter(conc[v], req, now)
                  ELSE EnforceWithParamsEnter(conc[v], req, now)]
    /\ UNCHANGED now
    /\ ConcFrame

TwinHandlerStep ==
    /\ TwinAt({"handler"})
    /\ \A v \in Variants : conc[v].steps < MaxConcSteps
    /\ UNCHANGED now
    /\ ConcFrame

TwinHandlerWriteHeader ==
    /\ TwinHandlerStep
    /\ \E code \in HandlerStatuses :
          conc' = [v \in Variants |-> CallWriteHeader(conc[v], code)]

TwinHandlerWrite ==
    /\ TwinHandlerStep
    /\ \E bytes \in HandlerChunks :
          conc' = [v \in Variants |-> CallWrite(conc[v], bytes)]

\* the handler reads request.Body and writes what it read
TwinHandlerEcho ==
    /\ TwinHandlerStep
    /\ \A v \in Variants : conc[v].reqBody # Nil /\ ~conc[v].handlerRead
    /\ conc' = [v \in Variants |->
                  LET s == CallReadBody(conc[v])
                  IN [CallWrite(s, s.handlerBody) EXCEPT !.steps = s.steps]]

TwinTick ==
    /\ TwinAt({"handler"})
    /\ now < StartClock + MaxConcTicks
    /\ now' = now + 1
    /\ UNCHANGED conc
    /\ ConcFrame

TwinHandlerPanic ==
    /\ TwinAt({"handler"})
    /\ \E val \in PanicValues : conc' = [v \in Variants |-> CallPanic(conc[v], val)]
    /\ UNCHANGED now
    /\ ConcFrame

TwinHandlerReturn ==
    /\ TwinAt({"handler"})
    /\ conc' = [v \in Variants |->
                  IF v = "Enforce" THEN EnforceReturn(conc[v], now)
                  ELSE EnforceWithParamsReturn(conc[v], now)]
    /\ UNCHANGED now
    /\ ConcFrame

TwinDeferred ==
    /\ TwinAt({"returned", "panicking"})
    /\ conc' = [v \in Variants |->
                  IF v = "Enforce" THEN EnforceDeferred(conc[v], config)
                  ELSE EnforceWithParamsDeferred(conc[v], config)]
    /\ UNCHANGED now
    /\ ConcFrame

NextTwin ==
    \/ NewIngressLogMiddleware
    \/ TwinEnter
    \/ TwinHandlerWriteHeader
    \/ TwinHandlerWrite
    \/ TwinHandlerEcho
    \/ TwinTick
    \/ TwinHandlerPanic
    \/ TwinHandlerReturn
    \/ TwinDeferred

SpecTwin == InitTwin /\ [][NextTwin]_vars

(***************************************************************************)
(* Properties.                                                             *)
(***************************************************************************)
Range(q) == {q[i] : i \in 1..Len(q)}

Done == pc = "done"

Panicked == panicVal # ""

DefaultConfiguration == argKind \in {"none", "nil"}

\* the dataMap of the only record
Record == logs[1].data

\* C1: a served request calls InfoMap exactly once, after the handler has
\* ended by return or panic, unless DisableIngressLog is true or
\* LogFailedRequestOnly() is true and the recorded status is 200; then it
\* calls it zero times.
C1_ExactlyOneLog ==
    /\ ~Done => logs = <<>>
    /\ Done => Len(logs) = IF config.DisableIngressLog
                              \/ (LogFailedRequestOnly(config)
                                  /\ recorder.Status = StatusOK)
                           THEN 0 ELSE 1

C1_Witness ==
    /\ Done /\ Panicked /\ variant = "EnforceWithParams"
    /\ LogFailedRequestOnly(config)
    /\ Len(logs) = 1

C3_FallbackOnlyIfUncommitted ==
    (Done /\ Panicked /\ panicVal # NilPanic) =>
        IF handlerWrote
        THEN /\ "panic: " \notin Range(client.body)
             /\ "panic: " \notin Range(recorder.Body)
        ELSE /\ client.status = StatusInternalServerError
             /\ client.body = PanicMessage(panicVal)

\* no emitted record has an Authorization entry in req_header or rsp_header
C4_Redacted ==
    \A i \in 1..Len(logs) :
        /\ FieldReqHeader \in DOMAIN logs[i].data =>
              "Authorization" \notin DOMAIN logs[i].data[FieldReqHeader]
        /\ FieldResponseHeader \in DOMAIN logs[i].data =>
              "Authorization" \notin DOMAIN logs[i].data[FieldResponseHeader]

\* C4: in every state every emitted record is free of Authorization
\* entries, and the step that builds the record changes neither the
\* request's nor the response's header map.
C4_Redaction ==
    /\ []C4_Redacted
    /\ [][pc' = "done" => (reqHeader' = reqHeader /\ rspHeader' = rspHeader)]_vars

C4_Witness ==
    /\ Done /\ Len(logs) = 1
    /\ FieldReqHeader \in DOMAIN Record /\ FieldResponseHeader \in DOMAIN Record
    /\ "Authorization" \in DOMAIN reqHeader
    /\ "Authorization" \in DOMAIN rspHeader
    /\ "X-Country" \in DOMAIN Record[FieldReqHeader]

\* C5: rsp_body is absent when LogResponseBody() is false; otherwise it is
\* the recorded body for every status when LogSuccessResponseBody() is
\* true, and otherwise the recorded body when the status is not 200 and
\* the marker "-" when it is 200.
C5_ResponseBodyPolicy ==
    (Done /\ Len(logs) = 1) =>
        IF ~LogResponseBody(config)
        THEN FieldResponseBody \notin DOMAIN Record
        ELSE /\ FieldResponseBody \in DOMAIN Record
             /\ Record[FieldResponseBody] =
                    IF LogSuccessResponseBody(config) THEN recorder.Body
                    ELSE IF recorder.Status # StatusOK THEN recorder.Body
                    ELSE <<"-">>

C5_Witness ==
    /\ Done /\ Len(logs) = 1
    /\ LogResponseBody(config) /\ ~LogSuccessResponseBody(config)
    /\ recorder.Status = StatusOK
    /\ recorder.Body # <<>>
    /\ Record[FieldResponseBody] = <<"-">>

\* C6: when the request's context already carries context data, no
\* identifier is minted or read from x-request-id, and the identifier
\* attached to the record is the upstream one.
C6_UpstreamIdentifierKept ==
    req.ctx # "" =>
        /\ ~minted
        /\ pc \notin {"new", "ready"} => ctxId = req.ctx
        /\ \A i \in 1..Len(logs) : logs[i].ctx = req.ctx

C6_Witness ==
    /\ Done /\ req.ctx = "up-1"
    /\ HeaderGet(reqHeader, headerNameRequestID) = "rid-1"
    /\ Len(logs) = 1 /\ logs[1].ctx = "up-1"

\* C7: when the body stream reads to its end without error, the captured
\* req_body is the original body and the handler that reads the body
\* afterwards reads the same bytes from the start.
C7_BodyRoundTrip ==
    (req.Body # Nil /\ ~req.Body.err) =>
        /\ pc \notin {"new", "ready"} => logReq.Body = req.Body.data
        /\ handlerRead => handlerBody = req.Body.data
        /\ \A i \in 1..Len(logs) :
              FieldReqBody \in DOMAIN logs[i].data =>
                 logs[i].data[FieldReqBody] = req.Body.data

C7_Witness ==
    /\ Done /\ handlerRead /\ Len(logs) = 1
    /\ req.Body # Nil /\ ~req.Body.err /\ Len(req.Body.data) = MaxBodyLen
    /\ handlerBody = req.Body.data
    /\ Record[FieldReqBody] = req.Body.data

\* C8: for a Config whose ExcludeOpt is nil every Policy function answers
\* as for the Config whose ExcludeOpt has every flag unset.
C8_NilExcludeLogsEverything ==
    (pc = "new" /\ argKind = "config" /\ config.ExcludeOpt = Nil) =>
        LET unset == [config EXCEPT !.ExcludeOpt = EmptyExcludeOption]
        IN /\ LogRequestHeader(config) = LogRequestHeader(unset)
           /\ LogRequestBody(config) = LogRequestBody(unset)
           /\ LogResponseHeader(config) = LogResponseHeader(unset)
           /\ LogResponseBody(config) = LogResponseBody(unset)
           /\ LogSuccessResponseBody(config) = LogSuccessResponseBody(unset)
           /\ LogFailedRequestOnly(config) = LogFailedRequestOnly(unset)

C10_DurationOnReturn ==
    (Done /\ ~Panicked /\ Len(logs) = 1) =>
        /\ Record[FieldDurationMs] * TicksPerMs <= retTime - startTime
        /\ retTime - startTime < (Record[FieldDurationMs] + 1) * TicksPerMs
        /\ Record[FieldDurationMs] >= (now - StartClock) \div TicksPerMs

C10_Witness ==
    /\ Done /\ ~Panicked /\ Len(logs) = 1
    /\ now - StartClock >= TicksPerMs
    /\ Record[FieldDurationMs] >= 1

\* C11: when the handler panics after running for d whole milliseconds,
\* the duration_ms of the emitted record is at least d.
C11_DurationOnPanic ==
    (Done /\ Panicked /\ Len(logs) = 1) =>
        Record[FieldDurationMs] >= Milliseconds(retTime - startTime)


\* the names log strips from the request header it logs
StrippedRequestHeaderNames ==
    {"Authorization"}
        \cup {CanonicalMIMEHeaderKey(k) : k \in Range(config.ExcludeOpt.RequestHeaderKeys)}

\* C12: when the record carries req_header, no name listed in
\* ExcludeOpt.RequestHeaderKeys (nor Authorization) is in it, whether the
\* header arrived with the request or the handler added it, and every
\* other header of the request is in it with the values the request holds.
C12_ConfiguredHeaderExclusion ==
    (Done /\ Len(logs) = 1 /\ FieldReqHeader \in DOMAIN Record) =>
        /\ DOMAIN Record[FieldReqHeader] = DOMAIN reqHeader \ StrippedRequestHeaderNames
        /\ \A k \in DOMAIN Record[FieldReqHeader] :
              Record[FieldReqHeader][k] = reqHeader[k]

\* a listed header that arrived with the request and that the handler added
\* a value to is stripped, and X-Country is logged
C12_Witness ==
    /\ Done /\ Len(logs) = 1 /\ FieldReqHeader \in DOMAIN Record
    /\ config.ExcludeOpt.RequestHeaderKeys = <<"X-Exclude-Key">>
    /\ "X-Exclude-Key" \in handlerAdded
    /\ "X-Exclude-Key" \in DOMAIN reqHeader
    /\ reqHeader["X-Exclude-Key"] = <<"secret", "new-value">>
    /\ "X-Exclude-Key" \notin DOMAIN Record[FieldReqHeader]
    /\ Record[FieldReqHeader]["X-Country"] = <<"ID">>


EndsWith(s, t) ==
    Len(s) >= Len(t) /\ SubSeq(s, Len(s) - Len(t) + 1, Len(s)) = t

\* C13: the request is captured before the handler runs (no capture and no
\* handler call before Enforce is entered; from then on the captured body is
\* the body as it arrived, whatever the handler has read since); a record
\* exists only once the handler has ended and the deferred function has
\* run; and its status and response body are those the recorder holds at
\* the end, the fallback of a recovered panic included.
C13_Ordering ==
    /\ pc \in {"new", "ready"} => (logReq = Nil /\ handlerCalls = 0)
    /\ pc \in {"handler", "returned", "panicking", "done"} =>
          /\ logReq # Nil
          /\ logReq.Body = getRequestBody(req.Body).text
    /\ logs # <<>> => Done
    /\ (Done /\ Len(logs) = 1) =>
          /\ Record[FieldStatus] = recorder.Status
          /\ FieldResponseBody \in DOMAIN Record =>
                Record[FieldResponseBody] = LoggedResponseBody(config, recorder)
          /\ (Panicked /\ panicVal # NilPanic /\ FieldResponseBody \in DOMAIN Record
                /\ Record[FieldResponseBody] # wipedMessage) =>
                EndsWith(Record[FieldResponseBody], PanicMessage(panicVal))

\* the handler read the body, wrote a chunk and panicked: the record holds
\* the captured body, the chunk and the fallback message
C13_Witness ==
    /\ Done /\ Len(logs) = 1 /\ panicVal = "boom"
    /\ handlerRead /\ handlerWrote
    /\ FieldReqBody \in DOMAIN Record /\ Record[FieldReqBody] = FullBody.data
    /\ FieldResponseBody \in DOMAIN Record
    /\ EndsWith(Record[FieldResponseBody], PanicMessage("boom"))
    /\ Len(Record[FieldResponseBody]) > Len(PanicMessage("boom"))


\* a header map without the names log strips
Redacted(h) == [k \in DOMAIN h \ StrippedRequestHeaderNames |-> h[k]]

\* C14 as stated: the URL, method, headers and body in the record are those
\* of the request before the handler ran, whatever the handler did to the
\* request headers.
C14_CapturedRequestImmutable ==
    (Done /\ Len(logs) = 1) =>
        /\ Record[FieldURL] = <<req.Method, " ", req.URL>>
        /\ FieldReqBody \in DOMAIN Record =>
              Record[FieldReqBody] = getRequestBody(req.Body).text
        /\ FieldReqHeader \in DOMAIN Record =>
              Record[FieldReqHeader] = Redacted(req.Header)

\* C14: the URL, method and body in the record are those of the request
\* before the handler ran; req_header is the request's own header map as it
\* is when the record is built, less the stripped names. That map is the
\* pre-handler one when the handler added nothing or works on a copy, and it
\* holds every header the handler added when the request came with
\* upstream context data (the handler is then given the request itself).
C14_CapturedRequest ==
    /\ (Done /\ Len(logs) = 1) =>
          /\ Record[FieldURL] = <<req.Method, " ", req.URL>>
          /\ FieldReqBody \in DOMAIN Record =>
                Record[FieldReqBody] = getRequestBody(req.Body).text
          /\ FieldReqHeader \in DOMAIN Record =>
                Record[FieldReqHeader] = Redacted(reqHeader)
    /\ (handlerAdded = {} \/ headerOwner = "copy") => reqHeader = req.Header
    /\ req.ctx # "" =>
          \A k \in handlerAdded :
              k \in DOMAIN reqHeader /\ "new-value" \in Range(reqHeader[k])

\* upstream context data, the handler read the body and added the header
\* Add: the record carries the arrival body and the added header
C14_Witness ==
    /\ Done /\ Len(logs) = 1 /\ req.ctx # ""
    /\ handlerRead /\ "Add" \in handlerAdded
    /\ "Add" \notin DOMAIN req.Header
    /\ Record[FieldReqBody] = FullBody.data
    /\ Record[FieldReqHeader]["Add"] = <<"new-value">>


\* C15: for a request without upstream context data, from the start of the
\* handler to the end of the request the identifier in the request context
\* is the first value of the X-Request-Id header if the header is present
\* and that value is not empty, and a generated, non-empty one otherwise;
\* every record is emitted under that identifier.
C15_IdentifierResolution ==
    /\ (pc \notin {"new", "ready"} /\ req.ctx = "") =>
          IF "X-Request-Id" \in DOMAIN req.Header /\ req.Header["X-Request-Id"][1] # ""
          THEN ctxId = req.Header["X-Request-Id"][1] /\ ~minted
          ELSE ctxId = NewUUID /\ minted /\ ctxId # ""
    /\ \A i \in 1..Len(logs) : logs[i].ctx = ctxId

\* both cases have emitted a record: the header's value, and a generated
\* identifier for a header that is present but empty
C15_Witness ==
    /\ Done /\ Len(logs) = 1 /\ req.ctx = "" /\ steps > 0
    /\ "X-Request-Id" \in DOMAIN req.Header
    /\ \/ req.Header["X-Request-Id"] = <<"">> /\ logs[1].ctx = NewUUID
       \/ req.Header["X-Request-Id"] = <<"rid-1">> /\ logs[1].ctx = "rid-1"


\* C16: when the body stream is absent or its read fails, the captured
\* req_body is "null", the handler is invoked exactly once, what it writes
\* reaches the client, the record is emitted with req_body "null", and the
\* handler that reads the body gets the bytes and the error the arriving
\* stream would have given it.
C16_BodyCaptureFailure ==
    (pc \notin {"new", "ready"} /\ (req.Body = Nil \/ req.Body.err)) =>
        /\ logReq.Body = NullBody
        /\ handlerCalls = 1
        /\ client = IF Done THEN Fallback([rec |-> recorder, sink |-> direct],
                                          IF panicVal = NilPanic THEN "" ELSE panicVal).sink
                    ELSE direct
        /\ (Done /\ ~config.DisableIngressLog) =>
              Len(logs) = 1 /\ Record[FieldReqBody] = NullBody
        /\ handlerRead =>
              /\ handlerBody = ReadAll(req.Body).bytes
              /\ handlerErr = ReadAll(req.Body).err


BaseFields == {FieldType, FieldURL, FieldReqTimestamp, FieldStatus, FieldDurationMs}

\* C17: every emitted record has the fields type "ingress_http", url_path
\* (method, a space, URL), req_timestamp (seconds), status (the recorder's
\* status) and duration_ms, and besides them exactly those of req_header,
\* req_body, rsp_header and rsp_body whose Policy function is true.
C17_RecordShape ==
    \A i \in 1..Len(logs) :
        LET data == logs[i].data
        IN /\ DOMAIN data =
                BaseFields
                  \cup (IF LogRequestHeader(config) THEN {FieldReqHeader} ELSE {})
                  \cup (IF LogRequestBody(config) THEN {FieldReqBody} ELSE {})
                  \cup (IF LogResponseHeader(config) THEN {FieldResponseHeader} ELSE {})
                  \cup (IF LogResponseBody(config) THEN {FieldResponseBody} ELSE {})
           /\ data[FieldType] = "ingress_http"
           /\ data[FieldURL] = <<req.Method, " ", req.URL>>
           /\ data[FieldReqTimestamp] = Unix(startTime)
           /\ data[FieldStatus] = recorder.Status
           /\ data[FieldDurationMs] \in Nat

\* a record of a configuration that excludes the request body and the
\* response header, and keeps the other two
C17_Witness ==
    /\ Done /\ Len(logs) = 1
    /\ ~LogRequestBody(config) /\ ~LogResponseHeader(config)
    /\ DOMAIN Record = BaseFields \cup {FieldReqHeader, FieldResponseBody}
    /\ handlerWrote


\* the names log strips from a request header under the shared config
ConcRedacted(h) ==
    [k \in DOMAIN h \ ({"Authorization"}
          \cup {CanonicalMIMEHeaderKey(x) : x \in Range(config.ExcludeOpt.RequestHeaderKeys)})
       |-> h[k]]

\* the record of call i holds the data of request i and of its own recorder
ConcIsolated ==
    \A i \in Slots :
        /\ Len(conc[i].logs) <= 1
        /\ \A n \in 1..Len(conc[i].logs) :
              LET data == conc[i].logs[n].data
                  r == ConcRequests[i]
              IN /\ data[FieldURL] = <<r.Method, " ", r.URL>>
                 /\ FieldReqHeader \in DOMAIN data =>
                       data[FieldReqHeader] = ConcRedacted(r.Header)
                 /\ FieldReqBody \in DOMAIN data => data[FieldReqBody] = r.Body.data
                 /\ data[FieldStatus] = conc[i].recorder.Status
                 /\ FieldResponseBody \in DOMAIN data =>
                       data[FieldResponseBody] = LoggedResponseBody(config, conc[i].recorder)
                 /\ data[FieldDurationMs] = conc[i].elapsedTimeInMS
                 /\ data[FieldReqTimestamp] = Unix(conc[i].startTime)
                 /\ conc[i].logs[n].ctx =
                       (IF "X-Request-Id" \in DOMAIN r.Header
                        THEN r.Header["X-Request-Id"][1] ELSE NewUUID)
        /\ conc[i].pc # "idle" =>
              \A c \in Range(conc[i].client.body) \cup Range(conc[i].recorder.Body) :
                  c \in {r.URL : r \in {ConcRequests[i]}} \cup {"panic: ", ".", "boom"}

\* C18: with several requests served concurrently in any interleaving, the
\* record, the recorder and the response of each call hold only the data of
\* its own request, and no step after construction changes config.
C18_RequestIsolation ==
    /\ []ConcIsolated
    /\ [][pc = "ready" => config' = config]_vars

\* call 1 has ended with a record of a handler that ran for a millisecond
\* while call 2, started no later, is still in its handler
C18_Witness ==
    /\ pc = "ready"
    /\ conc[1].pc = "done" /\ Len(conc[1].logs) = 1
    /\ conc[1].steps > 0 /\ conc[1].elapsedTimeInMS > 0
    /\ conc[2].pc = "handler" /\ conc[2].steps > 0
    /\ conc[2].startTime <= conc[1].startTime


\* C19: under every configuration the handler is called exactly once per
\* served request, with a request whose context carries a correlation
\* identifier, and as long as the handler has not panicked the response
\* (status, body and header map) is exactly what the handler's own calls
\* produce.
C19_Transparency ==
    /\ pc \in {"new", "ready"} => handlerCalls = 0
    /\ pc \in {"handler", "returned", "panicking", "done"} =>
          handlerCalls = 1 /\ ctxId # ""
    /\ ~Panicked => (client = direct /\ rspHeader = directHeader)

\* logging disabled, and a handler that set a header, a status and a body
\* has returned: the client holds exactly that
C19_Witness ==
    /\ Done /\ ~Panicked /\ config.DisableIngressLog /\ logs = <<>>
    /\ client.wroteHeader /\ client.status = StatusInternalServerError
    /\ client.body # <<>>
    /\ rspHeader # <<>>
    /\ client = direct /\ handlerCalls = 1


\* the locals of a call, less the routing parameters
WithoutParams(s) == [s EXCEPT !.ps = <<>>, !.handlerPs = <<>>]

\* C20: given the same configuration, request and handler behaviour, the
\* call of Enforce and the call of EnforceWithParams are at the same step
\* with the same capture, identifier, recorder, response and records in
\* every state; they differ only in that the handler of EnforceWithParams
\* has been handed the routing parameters, unchanged.
C20_VariantsEquivalent ==
    /\ WithoutParams(conc["Enforce"]) = WithoutParams(conc["EnforceWithParams"])
    /\ conc["Enforce"].handlerPs = <<>>
    /\ conc["EnforceWithParams"].handlerPs =
          (IF conc["EnforceWithParams"].pc = "idle" THEN <<>> ELSE Params)

\* both calls have recovered a panic of a handler that had echoed the body,
\* and both have emitted their record
C20_Witness ==
    /\ \A v \in Variants :
          /\ conc[v].pc = "done" /\ conc[v].panicVal = "boom"
          /\ conc[v].handlerRead /\ conc[v].handlerBody = FullBody.data
          /\ Len(conc[v].logs) = 1
          /\ conc[v].logs[1].data[FieldStatus] = StatusInternalServerError
    /\ conc["EnforceWithParams"].handlerPs = Params

====
